---- MODULE Spec2Model ----
(***************************************************************************)
(* VoxPilot: the adaptive voice-activity detector (src/src/vad.ts) and the *)
(* engine that segments the audio stream into frames, accumulates speech   *)
(* and hands segments to the transcriber (VoxPilotEngine).                 *)
(*                                                                         *)
(* Numbers.  RMS values and the noise floor are fixed-point numbers in     *)
(* units of 10^-6 (an RMS of 0.05 is 50000).  Thresholds are kept in units *)
(* of 10^-8, so that noiseFloor * sensitivityMultiplier, with the          *)
(* multiplier in hundredths, is exact.  The two divisions of the code (the *)
(* calibration mean and the moving average) truncate to the unit.          *)
(* Sensitivities are in hundredths (0.5 is 50).                            *)
(***************************************************************************)
EXTENDS Integers, Sequences, FiniteSets, TLC

VARIABLES
  vad,        \* the VoiceActivityDetector instance (a record of its fields)
  res,        \* the result returned by the last vad.process call of the last step
  op,         \* the operation that made the last step
  obs,        \* observations of the frames fed since construction or reset
  eng,        \* the fields of the VoxPilotEngine
  audio,      \* the AudioCapture and the capture processes it spawned
  pending,    \* the finalizeSpeech calls awaiting their transcription
  starts,     \* the startListening calls awaiting ensureTranscriber
  bar,        \* the StatusBarManager: its item and its setSent timer
  hist        \* what an observer of the segmenter has seen in this session

vars == <<vad, res, op, obs, eng, audio, pending, starts, bar, hist>>

-----------------------------------------------------------------------------
(* Program constants of the detector.                                      *)

calibrationTarget == 30
speechOnsetFrames == 3
minThreshold == 2000

Max(a, b) == IF a >= b THEN a ELSE b
Min(a, b) == IF a <= b THEN a ELSE b

\* Math.ceil(a / b) for a >= 0, b > 0
Ceil(a, b) == (a + b - 1) \div b

-----------------------------------------------------------------------------
(* Bounds of the model.                                                    *)

\* frames classified while not Speaking, per calibration
MaxQuiet == 6
\* cap of the speechFrames counter, which the code never resets while
\* above-threshold frames keep coming
MaxSpeechFrames == 7
\* the observation counter of frames stops counting here
FramesSeenCap == 34

\* RMS of a frame: digital silence, quiet (above minThreshold), loud
RmsLevels == {0, 10000, 500000}
\* RMS of the frames fed during calibration
CalLevels == {0, 500000}
Sensitivities == {10, 50, 95}
SilenceTimeouts == {20, 100, 250}
FrameDurations == {30}

\* the transcriptions awaited at once, the killed capture processes not yet
\* closed, and the startListening calls awaiting the model at once
MaxPending == 1
MaxStale == 1
MaxStarts == 1
\* frames in the speech buffer, where the model does not go up to
\* MAX_SPEECH_BYTES
MaxBuffered == 4
\* chunks fed
MaxChunks == 4
FlushMaxChunks == 4
ModeMaxChunks == 4
BarMaxChunks == 3
SwitchMaxChunks == 3
CfgMaxChunks == 4
SegMaxChunks == 4
CapMaxChunks == 4
AccMaxChunks == 4
CapMaxPending == 1
CapMaxStale == 1
\* frames of speech fed after the onset before the exploration starts
WarmFrames == 248
\* the frames of speech after the onset, and the frames after the speech,
\* of a scripted utterance
ScnSpeech == 50
ScnSilence == 50
\* the voxpilot settings of the engine
EngineSensitivities == {50}
EngineTimeouts == {30, 60}
\* the sensitivity of the sessions of several utterances: the noise floor
\* follows the frames of an onset, and at 0.95 a second utterance of the
\* same level is still above the threshold
AccSensitivities == {95}
\* A chunk is a size in bytes, the RMS of the first frame the chunk completes
\* and the RMS of the frames it completes after that, and the detector it is
\* fed to: one that is calibrating, one that is calibrated, or any.
Silent == <<0, 0>>
Loud == <<500000, 500000>>
\* half a frame, one frame, two frames, and the frames of a calibration
Chunks ==
  [size : {960, 1920, 3840}, rms : {Silent, Loud}, to : {"any"}]
    \cup [size : {57600}, rms : {Silent}, to : {"calibrating"}]
\* sizes that are odd, one byte short of a frame and one byte more than two
SegChunks ==
  [size : {1, 2, 959, 1919, 1920, 3841}, rms : {Silent}, to : {"any"}]
\* one frame, the three frames of an onset, and the frames of a calibration
AccChunks ==
  [size : {1920}, rms : {Silent, Loud}, to : {"calibrated"}]
    \cup [size : {5760}, rms : {Loud}, to : {"calibrated"}]
    \cup [size : {57600}, rms : {Silent}, to : {"calibrating"}]
\* one frame, and the frames of a calibration
CapChunks ==
  [size : {1920}, rms : {Silent, Loud}, to : {"calibrated"}]
    \cup [size : {57600}, rms : {Silent}, to : {"calibrating"}]

-----------------------------------------------------------------------------
(* VoiceActivityDetector                                                   *)

\* the multiplier, in hundredths, of a sensitivity in hundredths
SensitivityMultiplierBad(sensitivity) == 150 + sensitivity * 5

SensitivityMultiplier(sensitivity) == 150 + (100 - sensitivity) * 5

NewVad(sensitivity, silenceTimeoutMs, frameDurationMs) ==
  [ sensitivityMultiplier |-> SensitivityMultiplier(sensitivity),
    silenceOnsetFrames    |-> Ceil(silenceTimeoutMs, frameDurationMs),
    speechFrames          |-> 0,
    silenceFrames         |-> 0,
    isSpeaking            |-> FALSE,
    noiseFloor            |-> 0,
    calibrationFrames     |-> 0,
    calibrated            |-> FALSE,
    rmsSum                |-> 0 ]

NoResult ==
  [isSpeech |-> FALSE, speechStarted |-> FALSE, speechEnded |-> FALSE,
   rms |-> 0, threshold |-> 0]

\* Math.sqrt of a whole number, rounded down
RECURSIVE SqrtIn(_, _, _)
SqrtIn(n, lo, hi) ==
  IF lo >= hi THEN lo
  ELSE LET mid == (lo + hi + 1) \div 2
       IN IF mid * mid <= n THEN SqrtIn(n, mid, hi) ELSE SqrtIn(n, lo, mid - 1)

Sqrt(n) == SqrtIn(n, 0, 32768)

RECURSIVE SumSq(_)
SumSq(samples) ==
  IF samples = << >> THEN 0
  ELSE samples[1] * samples[1] + SumSq(Tail(samples))

\* what Math.sqrt(0 / 0) gives: not a number
NaN == -1

\* computeRMS of a buffer of 16-bit samples, in units of 10^-6: the root of
\* the mean square of sample / 32768 (10^6 / 32768 = 15625 / 512)
RmsOf(pcm16) == (Sqrt(SumSq(pcm16) \div Len(pcm16)) * 15625) \div 512

\* computeRMS without its test of samples === 0
ComputeRMSBad(pcm16) ==
  IF Len(pcm16) = 0 THEN NaN ELSE RmsOf(pcm16)

ComputeRMS(pcm16) ==
  IF Len(pcm16) = 0 THEN 0 ELSE RmsOf(pcm16)

\* the calibration branch of process
CalibrateBad(v, rms) ==
  LET sum == v.rmsSum + rms
      n   == v.calibrationFrames + 1
      v2  == [v EXCEPT !.rmsSum = sum, !.calibrationFrames = n]
      v3  == IF n >= calibrationTarget
             THEN [v2 EXCEPT !.noiseFloor = rms, !.calibrated = TRUE]
             ELSE v2
  IN [v |-> v3, r |-> [NoResult EXCEPT !.rms = rms]]

Calibrate(v, rms) ==
  LET sum == v.rmsSum + rms
      n   == v.calibrationFrames + 1
      v2  == [v EXCEPT !.rmsSum = sum, !.calibrationFrames = n]
      v3  == IF n >= calibrationTarget
             THEN [v2 EXCEPT !.noiseFloor = sum \div n, !.calibrated = TRUE]
             ELSE v2
  IN [v |-> v3, r |-> [NoResult EXCEPT !.rms = rms]]

\* the moving average of the noise floor, applied while not speaking
AdaptBad(v, rms) == (v.noiseFloor * 95 + rms * 5) \div 100

Adapt(v, rms) ==
  IF ~v.isSpeaking THEN (v.noiseFloor * 95 + rms * 5) \div 100
                   ELSE v.noiseFloor

\* the decision threshold, in units of 10^-8
ThresholdBad(noiseFloor, mult) == noiseFloor * mult

Threshold(noiseFloor, mult) == Max(noiseFloor * mult, minThreshold * 100)

\* the onset test without its !this.isSpeaking
OnsetAgain(v, n) == n >= speechOnsetFrames

\* the onset test of a frame above the threshold
OnsetBad(v, n) == n >= speechOnsetFrames - 1

Onset(v, n) == ~v.isSpeaking /\ n >= speechOnsetFrames

\* the offset test of a frame at or below the threshold
OffsetBad(v, n) == v.isSpeaking /\ n > v.silenceOnsetFrames

Offset(v, n) == v.isSpeaking /\ n >= v.silenceOnsetFrames

\* isSpeech of the result, given the detector before and after the frame
IsSpeechBad(before, after) == before.isSpeaking \/ after.isSpeaking

IsSpeech(before, after) == after.isSpeaking

\* the noise floor the threshold of a frame is computed from: this.noiseFloor
\* as the update for the frame left it, not as the frame met it
ComparedBad(v, nf) == v.noiseFloor

Compared(v, nf) == nf

\* the classification branch of process
Classify(v, rms) ==
  LET nf        == Adapt(v, rms)
      threshold == Threshold(Compared(v, nf), v.sensitivityMultiplier)
      frameIsSpeech == rms * 100 > threshold
      v1 == [v EXCEPT !.noiseFloor = nf]
  IN IF frameIsSpeech
     THEN LET n       == v1.speechFrames + 1
              started == Onset(v1, n)
              v2 == [v1 EXCEPT !.speechFrames = n, !.silenceFrames = 0,
                               !.isSpeaking = IF started THEN TRUE ELSE @]
          IN [v |-> v2,
              r |-> [isSpeech |-> IsSpeech(v1, v2), speechStarted |-> started,
                     speechEnded |-> FALSE, rms |-> rms, threshold |-> threshold]]
     ELSE LET n     == v1.silenceFrames + 1
              ended == Offset(v1, n)
              v2 == [v1 EXCEPT !.silenceFrames = n, !.speechFrames = 0,
                               !.isSpeaking = IF ended THEN FALSE ELSE @]
          IN [v |-> v2,
              r |-> [isSpeech |-> IsSpeech(v1, v2), speechStarted |-> FALSE,
                     speechEnded |-> ended, rms |-> rms, threshold |-> threshold]]

\* process(pcm16), given the RMS of the frame
Process(v, rms) ==
  IF ~v.calibrated THEN Calibrate(v, rms) ELSE Classify(v, rms)

\* reset() without its isSpeaking = false
VadResetSpeaking(v) ==
  [v EXCEPT !.speechFrames = 0, !.silenceFrames = 0,
            !.calibrated = FALSE, !.calibrationFrames = 0, !.rmsSum = 0,
            !.noiseFloor = 0]

VadResetBad(v) ==
  [v EXCEPT !.speechFrames = 0, !.silenceFrames = 0, !.isSpeaking = FALSE,
            !.calibrated = FALSE, !.calibrationFrames = 0, !.rmsSum = 0]

VadReset(v) ==
  [v EXCEPT !.speechFrames = 0, !.silenceFrames = 0, !.isSpeaking = FALSE,
            !.calibrated = FALSE, !.calibrationFrames = 0, !.rmsSum = 0,
            !.noiseFloor = 0]

-----------------------------------------------------------------------------
(* Observations: what an observer of the process calls counts from the     *)
(* results: the calls since construction or reset, the sum of the RMS of   *)
(* the first calibrationTarget of them, and the lengths of the current     *)
(* runs of frames above and not above the threshold they were compared to. *)
(* Right after a reset, the state the detector was reset in.               *)

NoObs ==
  [frames |-> 0, sum |-> 0, quiet |-> 0, runAbove |-> 0, runBelow |-> 0,
   reset |-> "none"]

\* the observations after a process call that started in v and returned r
Observe(o, v, r) ==
  LET classified == o.frames >= calibrationTarget
      above      == classified /\ r.rms * 100 > r.threshold
  IN [ frames   |-> Min(o.frames + 1, FramesSeenCap),
       sum      |-> IF classified THEN o.sum ELSE o.sum + r.rms,
       quiet    |-> IF classified /\ ~v.isSpeaking THEN o.quiet + 1 ELSE o.quiet,
       runAbove |-> IF above THEN Min(o.runAbove + 1, FramesSeenCap) ELSE 0,
       runBelow |-> IF classified /\ ~above
                    THEN Min(o.runBelow + 1, FramesSeenCap) ELSE 0,
       reset    |-> "none" ]

\* the frames the bounds of the model let the detector be fed
MayFeed(v, o, rms) ==
  /\ ~v.calibrated => rms \in CalLevels
  /\ (v.calibrated /\ ~v.isSpeaking) => o.quiet < MaxQuiet
  /\ v.isSpeaking => v.speechFrames < MaxSpeechFrames

-----------------------------------------------------------------------------
(* Byte buffers.  A byte is named by its place in the stream fed during    *)
(* the session, and a buffer is the sequence of its bytes, written as the  *)
(* sequence of its maximal runs <<lo, hi>> of consecutive places lo..hi-1. *)

Empty == << >>

Run(lo, hi) == IF lo < hi THEN << <<lo, hi>> >> ELSE Empty

RECURSIVE BufLen(_)
BufLen(b) == IF b = Empty THEN 0 ELSE (b[1][2] - b[1][1]) + BufLen(Tail(b))

\* Buffer.concat([a, b])
BufCat(a, b) ==
  IF a = Empty THEN b
  ELSE IF b = Empty THEN a
  ELSE IF a[Len(a)][2] = b[1][1]
       THEN SubSeq(a, 1, Len(a) - 1) \o << <<a[Len(a)][1], b[1][2]>> >> \o Tail(b)
       ELSE a \o b

\* b.subarray(0, n)
RECURSIVE BufTake(_, _)
BufTake(b, n) ==
  IF n <= 0 \/ b = Empty THEN Empty
  ELSE LET l == b[1][2] - b[1][1]
       IN IF n < l THEN << <<b[1][1], b[1][1] + n>> >>
          ELSE BufCat(<<b[1]>>, BufTake(Tail(b), n - l))

\* b.subarray(n)
RECURSIVE BufDrop(_, _)
BufDrop(b, n) ==
  IF n <= 0 \/ b = Empty THEN b
  ELSE LET l == b[1][2] - b[1][1]
       IN IF n < l THEN << <<b[1][1] + n, b[1][2]>> >> \o Tail(b)
          ELSE BufDrop(Tail(b), n - l)

-----------------------------------------------------------------------------
(* StatusBarManager.  The item shows one of the texts of the class, named  *)
(* here by the state they stand for; the tooltip is kept where it is a     *)
(* message.  sentTimeout is "undefined", or the timer of setSent: "armed", *)
(* or "fired" once its callback has run.                                   *)

NewBar ==
  [text |-> "", tooltip |-> "", backgroundColor |-> "undefined",
   sentTimeout |-> "undefined"]

ClearSentTimeout(b) == [b EXCEPT !.sentTimeout = "undefined"]

SetIdle(b) ==
  [ClearSentTimeout(b) EXCEPT
     !.text = "idle", !.tooltip = "idle", !.backgroundColor = "undefined"]

SetCalibrating(b) ==
  [b EXCEPT !.text = "calibrating", !.tooltip = "calibrating",
            !.backgroundColor = "warning"]

SetListening(b) ==
  [b EXCEPT !.text = "listening", !.tooltip = "listening",
            !.backgroundColor = "warning"]

SetSpeechDetected(b) ==
  [b EXCEPT !.text = "speaking", !.tooltip = "speaking",
            !.backgroundColor = "warning"]

SetProcessing(b) ==
  [b EXCEPT !.text = "processing", !.tooltip = "processing",
            !.backgroundColor = "undefined"]

SetSent(b) ==
  [ClearSentTimeout(b) EXCEPT
     !.text = "sent", !.tooltip = "sent", !.backgroundColor = "undefined",
     !.sentTimeout = "armed"]

SetError(b, msg) ==
  [b EXCEPT !.text = "error", !.tooltip = msg, !.backgroundColor = "error"]

\* the callback of the timer of setSent
SentTimeout(b) ==
  [b EXCEPT !.text = "idle", !.tooltip = "idle", !.sentTimeout = "fired"]

-----------------------------------------------------------------------------
(* VoxPilotEngine.  The handlers are operators on the world w, the record  *)
(* of the variables the handler may change; w.micro are the continuations  *)
(* the handler has queued as microtasks, which run when it returns.        *)

FRAME_SIZE == 960 * 2
MAX_SPEECH_BYTES == 15 * 16000 * 2
DefaultFrameDurationMs == 30

NoSpeech == [n |-> 0, data |-> Empty]

\* the bounds of the three specifications
Lim ==
  [track |-> FALSE, buffered |-> MaxBuffered, speech |-> MaxSpeechFrames,
   chunks |-> MaxChunks, pending |-> MaxPending, stale |-> MaxStale,
   notes |-> FALSE, modes |-> FALSE, bar |-> TRUE]
SegLim ==
  [track |-> TRUE, buffered |-> MaxBuffered, speech |-> MaxSpeechFrames,
   chunks |-> SegMaxChunks, pending |-> MaxPending, stale |-> MaxStale,
   notes |-> FALSE, modes |-> FALSE, bar |-> FALSE]
AccLim ==
  [track |-> FALSE, buffered |-> MaxBuffered, speech |-> MaxSpeechFrames,
   chunks |-> AccMaxChunks, pending |-> MaxPending, stale |-> MaxStale,
   notes |-> TRUE, modes |-> FALSE, bar |-> FALSE]
SwitchLim ==
  [track |-> FALSE, buffered |-> MaxBuffered, speech |-> MaxSpeechFrames,
   chunks |-> SwitchMaxChunks, pending |-> MaxPending, stale |-> MaxStale,
   notes |-> FALSE, modes |-> TRUE, bar |-> FALSE]
BarLim ==
  [track |-> FALSE, buffered |-> MaxBuffered, speech |-> MaxSpeechFrames,
   chunks |-> BarMaxChunks, pending |-> MaxPending, stale |-> MaxStale,
   notes |-> FALSE, modes |-> FALSE, bar |-> TRUE]
CfgLim ==
  [track |-> FALSE, buffered |-> MaxBuffered, speech |-> MaxSpeechFrames,
   chunks |-> CfgMaxChunks, pending |-> MaxPending, stale |-> MaxStale,
   notes |-> FALSE, modes |-> TRUE, bar |-> FALSE]
ModeLim ==
  [track |-> FALSE, buffered |-> MaxBuffered, speech |-> MaxSpeechFrames,
   chunks |-> ModeMaxChunks, pending |-> MaxPending, stale |-> MaxStale,
   notes |-> FALSE, modes |-> TRUE, bar |-> FALSE]
FlushLim ==
  [track |-> TRUE, buffered |-> MAX_SPEECH_BYTES \div FRAME_SIZE,
   speech |-> 2 * (MAX_SPEECH_BYTES \div FRAME_SIZE), chunks |-> FlushMaxChunks,
   pending |-> CapMaxPending, stale |-> CapMaxStale, notes |-> FALSE,
   modes |-> FALSE, bar |-> FALSE]
CapLim ==
  [track |-> FALSE, buffered |-> MAX_SPEECH_BYTES \div FRAME_SIZE,
   speech |-> 2 * (MAX_SPEECH_BYTES \div FRAME_SIZE), chunks |-> CapMaxChunks,
   pending |-> CapMaxPending, stale |-> CapMaxStale, notes |-> FALSE,
   modes |-> FALSE, bar |-> FALSE]

\* the fields of a constructed engine; sensitivity and silenceTimeout are the
\* voxpilot settings
NewEngine(sensitivity, silenceTimeout) ==
  [ isListening    |-> FALSE,
    isQuickCapture |-> FALSE,
    speechBuffer   |-> NoSpeech,
    pendingAudio   |-> Empty,
    audioChunkCount |-> 0,
    transcriber    |-> "null",
    sensitivity    |-> sensitivity,
    silenceTimeout |-> silenceTimeout ]

\* a constructed AudioCapture; stale counts the processes it no longer
\* holds that have not closed yet
NewAudio == [process |-> "none", isCapturing |-> FALSE, stale |-> 0]

World ==
  [vad |-> vad, res |-> res, obs |-> obs, eng |-> eng, audio |-> audio,
   pending |-> pending, starts |-> starts, bar |-> bar, hist |-> hist,
   micro |-> << >>]

\* a call of the status bar.  The engine never reads the status bar, and
\* where lim.bar is not set the status bar is left out of the exploration.
Show(w, b) == IF w.hist.lim.bar THEN [w EXCEPT !.bar = b] ELSE w

\* the end of finalizeSpeech()
ShowState(w) ==
  Show(w, IF w.eng.isListening THEN SetListening(w.bar) ELSE SetIdle(w.bar))

\* a handler starts with no frame classified, nothing emitted and no
\* transcribe call made
Fresh(w) ==
  [w EXCEPT !.res = NoResult,
            !.hist.frameLens = {}, !.hist.calls = << >>, !.hist.peak = 0,
            !.hist.appended = FALSE, !.hist.seen = {}, !.hist.noop = FALSE,
            !.hist.framesOut = Empty, !.hist.input = Empty,
            !.hist.residual = 0, !.hist.chunk = 0, !.hist.late = FALSE,
            !.hist.cont = "none", !.hist.load = "none",
            !.hist.lost = "none"]

\* the place after the last byte of a buffer that is not empty
BufEnd(b) == b[Len(b)][2]

\* the observer of a transcribe call: a byte handed over at a place below
\* the mark has been handed over before; the mark moves behind the buffer
Handed(h, audioData) ==
  [h EXCEPT !.calls = Append(@, audioData),
            !.out = IF h.lim.track THEN BufCat(@, audioData) ELSE @,
            !.overlap = IF h.lim.notes THEN @ \/ audioData[1][1] < h.mark ELSE @,
            !.mark = IF h.lim.notes THEN BufEnd(audioData) ELSE @]

\* finalizeSpeech() without its speechBuffer = []
FinalizeSpeechKeep(w, then) ==
  LET queued == IF then = "none" THEN w.micro ELSE Append(w.micro, then)
  IN IF w.eng.speechBuffer.n = 0
     THEN [w EXCEPT !.micro = queued]
     ELSE LET audioData == w.eng.speechBuffer.data
          IN CASE w.eng.transcriber = "null" -> [w EXCEPT !.micro = queued]
               [] w.eng.transcriber = "unloaded" ->
                    [w EXCEPT !.micro = queued, !.hist = Handed(@, audioData)]
               [] OTHER ->
                    [w EXCEPT !.pending = Append(@, [data |-> audioData, then |-> then, own |-> TRUE]),
                              !.hist = Handed(@, audioData)]

\* finalizeSpeech() without its first line
FinalizeSpeechEager(w, then) ==
  [w EXCEPT !.eng.speechBuffer = NoSpeech,
            !.pending = Append(@, [data |-> w.eng.speechBuffer.data, then |-> then, own |-> TRUE]),
            !.hist.calls = Append(@, w.eng.speechBuffer.data)]

\* finalizeSpeech() that hands over the buffer without its first frame
FinalizeSpeechShort(w, then) ==
  LET queued == IF then = "none" THEN w.micro ELSE Append(w.micro, then)
  IN IF w.eng.speechBuffer.n = 0
     THEN [w EXCEPT !.micro = queued]
     ELSE LET audioData == BufDrop(w.eng.speechBuffer.data, FRAME_SIZE)
              w1 == [w EXCEPT !.eng.speechBuffer = NoSpeech]
          IN IF w.eng.transcriber = "loaded" /\ audioData # Empty
             THEN [w1 EXCEPT !.pending = Append(@, [data |-> audioData, then |-> then, own |-> TRUE]),
                             !.hist = Handed(@, audioData)]
             ELSE [w1 EXCEPT !.micro = queued]

\* finalizeSpeech(), whose promise is continued by `then`
FinalizeSpeech(w, then) ==
  LET queued == IF then = "none" THEN w.micro ELSE Append(w.micro, then)
  IN IF w.eng.speechBuffer.n = 0
     THEN [w EXCEPT !.micro = queued,
                    !.hist.noop = IF w.hist.lim.notes THEN TRUE ELSE @]
     ELSE LET audioData == w.eng.speechBuffer.data
              w0 == [w EXCEPT !.eng.speechBuffer = NoSpeech, !.hist.held = 0]
              w1 == Show(w0, SetProcessing(w0.bar))
              kept == IF w.hist.lim.track \/ w.hist.lim.notes
                      THEN audioData ELSE Empty
              lost == IF w.hist.lim.modes THEN w.eng.transcriber
                      ELSE w.hist.lost
          IN CASE w.eng.transcriber = "null" ->
                    \* this.transcriber! is null: the TypeError is caught
                    \* before anything is awaited
                    ShowState([w1 EXCEPT !.micro = queued, !.hist.lost = lost])
               [] w.eng.transcriber = "unloaded" ->
                    \* transcribe rejects with 'Model not loaded'
                    [w1 EXCEPT !.micro = IF then = "none"
                                         THEN Append(w.micro, "end")
                                         ELSE w.micro \o <<"end", then>>,
                               !.hist = [Handed(@, audioData) EXCEPT !.lost = lost]]
               [] OTHER ->
                    [w1 EXCEPT !.pending = Append(@, [data |-> kept, then |-> then,
                                                      own |-> TRUE]),
                               !.hist = Handed(@, audioData)]

\* AudioCapture.stop()
AudioStop(a) ==
  [a EXCEPT !.process = "none",
            !.stale = IF a.process = "live" THEN @ + 1 ELSE @,
            !.isCapturing = FALSE]

\* AudioCapture.start()
AudioStart(a) ==
  IF a.isCapturing THEN a
  ELSE [a EXCEPT !.process = "live",
                 !.stale = IF a.process = "live" THEN @ + 1 ELSE @,
                 !.isCapturing = TRUE]

\* stopListening() without its flush of the buffered speech
StopListeningBad(w) ==
  Show([w EXCEPT !.audio = AudioStop(@),
                 !.eng.isListening = FALSE,
                 !.eng.isQuickCapture = FALSE,
                 !.eng.audioChunkCount = 0],
       SetIdle(w.bar))

StopListening(w) ==
  LET w1 == IF w.eng.speechBuffer.n > 0 THEN FinalizeSpeech(w, "none") ELSE w
  IN Show([w1 EXCEPT !.audio = AudioStop(@),
                     !.eng.isListening = FALSE,
                     !.eng.isQuickCapture = FALSE,
                     !.eng.audioChunkCount = 0],
          SetIdle(w1.bar))

\* The observer of a session: the bytes fed (fed: the place of the next
\* byte), the buffers handed to transcribe by the last handler (calls) and
\* the most bytes the speech buffer held when a processFrame call of the last
\* handler returned (peak);
\* chunks counts the chunks fed in all sessions.  Where lim.track is set it
\* also keeps the frames handed to processFrame since the session started
\* (emitted) and by the last handler (framesOut, frameLens), of the last
\* chunk its length, the residual it met and the two of them concatenated
\* (input), the frames of the session whose result had isSpeech or
\* speechEnded (kept) and the buffers handed to transcribe in the session,
\* concatenated (out).  Where lim.notes is set it keeps the place after the last byte
\* handed to transcribe in the session (mark), whether a byte was handed over
\* twice (overlap), whether the frame last processed was appended to the
\* speech buffer (appended), a note of each frame the last handler
\* processed (seen) and whether finalizeSpeech was called by the last handler
\* with an empty speech buffer (noop).  Where lim.modes is set it keeps the
\* handler in which the session was started (by) and whether the
\* transcription that ended in the last step was awaited since before the
\* session started (late) and the continuation of its finalizeSpeech call
\* (cont), and how the ensureTranscriber call that returned in the last step
\* ended (load), and the transcriber ("null" or "unloaded") that made the
\* last handler lose a segment (lost); an awaited transcription is `own`
\* until a session starts; and it keeps the frames in the speech buffer that
\* a detector since replaced has classified (held).  lim are the bounds the behaviour is explored within.
NewHist(lim) ==
  [lim |-> lim, fed |-> 0, chunks |-> 0, emitted |-> Empty,
   framesOut |-> Empty, frameLens |-> {}, calls |-> << >>, peak |-> 0,
   residual |-> 0, chunk |-> 0, input |-> Empty,
   mark |-> 0, overlap |-> FALSE, appended |-> FALSE, seen |-> {},
   noop |-> FALSE, by |-> "none", kept |-> Empty, out |-> Empty,
   late |-> FALSE, cont |-> "none", load |-> "none", lost |-> "none",
   held |-> 0]

\* the transcriptions awaited when a session starts are those of sessions
\* before it
Disowned(w) ==
  IF w.hist.lim.modes
  THEN [i \in 1..Len(w.pending) |-> [w.pending[i] EXCEPT !.own = FALSE]]
  ELSE w.pending

\* startListening() without its vad.reset()
StartTailBad(w) ==
  Show(
  [w EXCEPT !.eng.speechBuffer = NoSpeech,
            !.eng.pendingAudio = Empty,
            !.eng.audioChunkCount = 0,
            !.obs = NoObs,
            !.audio = AudioStart(@),
            !.eng.isListening = TRUE,
            !.pending = Disowned(w),
            !.hist = [NewHist(@.lim) EXCEPT
                        !.chunks = w.hist.chunks,
                        !.by = IF w.hist.lim.modes THEN "new" ELSE "none"]],
  SetCalibrating(w.bar))

\* startListening() after ensureTranscriber has returned
StartTail(w) ==
  Show(
  [w EXCEPT !.eng.speechBuffer = NoSpeech,
            !.eng.pendingAudio = Empty,
            !.eng.audioChunkCount = 0,
            !.vad = VadReset(@),
            !.obs = NoObs,
            !.audio = AudioStart(@),
            !.eng.isListening = TRUE,
            !.pending = Disowned(w),
            !.hist = [NewHist(@.lim) EXCEPT
                        !.chunks = w.hist.chunks,
                        !.by = IF w.hist.lim.modes THEN "new" ELSE "none"]],
  SetCalibrating(w.bar))

\* startListening(): ensureTranscriber returns at once when there is a
\* transcriber, and is awaited otherwise
StartListening(w) ==
  IF w.eng.transcriber # "null" THEN StartTail(w)
  ELSE [w EXCEPT !.starts = @ + 1]

\* the condition of the loop of onAudioChunk
HasFrameBad(buf) == BufLen(buf) > FRAME_SIZE

HasFrame(buf) == BufLen(buf) >= FRAME_SIZE

\* the frame the loop slices off, and what it leaves
RestBad(buf) == BufDrop(buf, FRAME_SIZE + 1)

NextFrame(buf) == BufTake(buf, FRAME_SIZE)

Rest(buf) == BufDrop(buf, FRAME_SIZE)

\* the condition of the max-duration flush
MaxReachedBad(isSpeech, totalBytes) == isSpeech /\ totalBytes > MAX_SPEECH_BYTES

MaxReached(isSpeech, totalBytes) == isSpeech /\ totalBytes >= MAX_SPEECH_BYTES

\* processFrame(frame) in three parts: the frame is classified (p is what
\* vad.process returns), pushed, and the buffer flushed
Classified(w, frame, p) ==
  [w EXCEPT !.vad = p.v, !.res = p.r,
            !.obs = Observe(w.obs, w.vad, p.r),
            !.eng.audioChunkCount = @ + 1,
            !.hist.emitted = IF w.hist.lim.track THEN BufCat(@, frame) ELSE @,
            !.hist.framesOut = IF w.hist.lim.track THEN BufCat(@, frame) ELSE @,
            !.hist.frameLens = IF w.hist.lim.track THEN @ \cup {BufLen(frame)} ELSE @]

PushedBad(w, frame) ==
  IF w.res.isSpeech
  THEN [w EXCEPT !.eng.speechBuffer =
          [n |-> @.n + 1, data |-> BufCat(@.data, frame)]]
  ELSE w

Pushed(w, frame) ==
  IF w.res.isSpeech \/ w.res.speechEnded
  THEN [w EXCEPT !.eng.speechBuffer =
          [n |-> @.n + 1, data |-> BufCat(@.data, frame)]]
  ELSE w

FlushedBad(w) ==
  IF w.res.speechEnded THEN FinalizeSpeech(w, "quickStop") ELSE w

Flushed(w) ==
  IF MaxReached(w.res.isSpeech, BufLen(w.eng.speechBuffer.data))
  THEN FinalizeSpeech(w, "none")
  ELSE IF w.res.speechEnded THEN FinalizeSpeech(w, "quickStop")
  ELSE w

\* the status bar follows the frame: speech has started, and the detector
\* has its threshold at the 31st frame of the session
Displayed(w) ==
  LET w1 == IF w.res.speechStarted THEN Show(w, SetSpeechDetected(w.bar)) ELSE w
  IN IF w1.res.threshold > 0 /\ w1.eng.audioChunkCount = 31
     THEN Show(w1, SetListening(w1.bar)) ELSE w1

\* the observer notes, after the push, whether the frame was appended to
\* the buffer processFrame was called with (w0)
Noted(w0, frame, w) ==
  IF w.hist.lim.notes
  THEN [w EXCEPT !.hist.appended =
          (w.eng.speechBuffer =
             [n |-> w0.eng.speechBuffer.n + 1,
              data |-> BufCat(w0.eng.speechBuffer.data, frame)])]
  ELSE w

\* the buffers b ends with the bytes of frame
EndsWith(b, frame) ==
  /\ BufLen(b) >= BufLen(frame)
  /\ BufDrop(b, BufLen(b) - BufLen(frame)) = frame

\* the observer notes what the speech buffer holds when processFrame returns,
\* and of the frame: the result, the detector's state, whether it was
\* appended, the transcribe calls made and whether what they handed over
\* ends with the frame and is the buffer with the frame appended
Returned(w0, frame, w) ==
  LET made == SubSeq(w.hist.calls, Len(w0.hist.calls) + 1, Len(w.hist.calls))
      note == [isSpeech |-> w.res.isSpeech,
               speechEnded |-> w.res.speechEnded,
               calibrating |-> ~w.vad.calibrated,
               speaking |-> w.vad.isSpeaking,
               appended |-> w.hist.appended,
               held |-> w0.eng.speechBuffer.n,
               holds |-> w.eng.speechBuffer.n,
               transcriber |-> w0.eng.transcriber,
               calls |-> Len(made),
               last |-> \A i \in 1..Len(made) : EndsWith(made[i], frame),
               whole |-> \A i \in 1..Len(made) :
                           made[i] = BufCat(w0.eng.speechBuffer.data, frame)]
  IN [w EXCEPT !.hist.peak = Max(@, BufLen(w.eng.speechBuffer.data)),
               !.hist.kept = IF w.hist.lim.track
                                  /\ (w.res.isSpeech \/ w.res.speechEnded)
                             THEN BufCat(@, frame) ELSE @,
               !.hist.seen = IF w.hist.lim.notes THEN @ \cup {note} ELSE @]

ProcessFrameBad(w, frame, rms) ==
  Returned(w, frame,
           Noted(w, frame,
                 Pushed(Flushed(Classified(w, frame, Process(w.vad, rms))), frame)))

ProcessFrame(w, frame, rms) ==
  Returned(w, frame,
           Flushed(Displayed(Noted(w, frame,
                                   Pushed(Classified(w, frame, Process(w.vad, rms)),
                                          frame)))))

\* the loop of onAudioChunk; the k-th frame it emits has RMS rms[1] for
\* k = 1 and rms[2] after that
RECURSIVE EmitLoop(_, _, _)
EmitLoop(w, rms, k) ==
  IF HasFrame(w.eng.pendingAudio)
  THEN EmitLoop(ProcessFrame([w EXCEPT !.eng.pendingAudio = Rest(@)],
                             NextFrame(w.eng.pendingAudio),
                             IF k = 1 THEN rms[1] ELSE rms[2]),
                rms, k + 1)
  ELSE w

\* a chunk with an odd number of bytes is left out
FedBad(w, chunk) ==
  [w EXCEPT !.eng.pendingAudio = IF BufLen(chunk) % 2 = 1 THEN @ ELSE BufCat(@, chunk),
            !.hist.fed = @ + BufLen(chunk),
            !.hist.chunks = @ + 1,
            !.hist.residual = IF w.hist.lim.track THEN BufLen(w.eng.pendingAudio) ELSE @,
            !.hist.chunk = IF w.hist.lim.track THEN BufLen(chunk) ELSE @,
            !.hist.input = IF w.hist.lim.track
                           THEN BufCat(w.eng.pendingAudio, chunk) ELSE @]

\* the chunk is appended to the residual
Fed(w, chunk) ==
  [w EXCEPT !.eng.pendingAudio = BufCat(@, chunk),
            !.hist.fed = @ + BufLen(chunk),
            !.hist.chunks = @ + 1,
            !.hist.residual = IF w.hist.lim.track THEN BufLen(w.eng.pendingAudio) ELSE @,
            !.hist.chunk = IF w.hist.lim.track THEN BufLen(chunk) ELSE @,
            !.hist.input = IF w.hist.lim.track
                           THEN BufCat(w.eng.pendingAudio, chunk) ELSE @]

OnAudioChunkOp(w, size, rms) ==
  EmitLoop(Fed(w, Run(w.hist.fed, w.hist.fed + size)), rms, 1)

\* the continuations queued as microtasks, run in order: the end of a
\* finalizeSpeech call ("end"), and what follows the call
RECURSIVE RunMicro(_)
RunMicro(w) ==
  IF w.micro = << >> THEN w
  ELSE LET then == Head(w.micro)
           w1   == [w EXCEPT !.micro = Tail(@)]
       IN RunMicro(IF then = "end" THEN ShowState(w1)
                   ELSE IF then = "cancelStop" \/ w1.eng.isQuickCapture
                   THEN StopListening(w1) ELSE w1)

\* Places are names: unless the observer keeps the session's frames, the
\* places are renumbered after a handler so that the oldest byte still held
\* (by the residual, the speech buffer or an awaited transcription) is at 0,
\* and so is the first byte of each buffer handed to transcribe; a mark
\* below every byte held is a mark at 0.
Shift(b, d) == [i \in 1..Len(b) |-> <<b[i][1] - d, b[i][2] - d>>]

Oldest(w) ==
  LET held == <<w.eng.pendingAudio, w.eng.speechBuffer.data>>
                \o [i \in 1..Len(w.pending) |-> w.pending[i].data]
      firsts == {held[i][1][1] : i \in {j \in 1..Len(held) : held[j] # Empty}}
  IN IF firsts = {} THEN w.hist.fed
     ELSE CHOOSE m \in firsts : \A x \in firsts : m <= x

Renumber(w) ==
  IF w.hist.lim.track THEN w
  ELSE LET d == Oldest(w)
       IN [w EXCEPT
             !.eng.pendingAudio = Shift(@, d),
             !.eng.speechBuffer.data = Shift(@, d),
             !.pending = [i \in 1..Len(w.pending) |->
                            [w.pending[i] EXCEPT !.data = Shift(@, d)]],
             !.hist.fed = @ - d,
             !.hist.mark = Max(@ - d, 0),
             !.hist.framesOut = Shift(@, d),
             !.hist.input = Shift(@, d),
             !.hist.calls = [i \in 1..Len(w.hist.calls) |->
                               Shift(w.hist.calls[i], w.hist.calls[i][1][1])]]

\* the effect of a handler and of the microtasks it queued becomes the next
\* state
Commit(w, name) ==
  /\ vad' = w.vad
  /\ res' = w.res
  /\ obs' = w.obs
  /\ eng' = w.eng
  /\ audio' = w.audio
  /\ pending' = w.pending
  /\ starts' = w.starts
  /\ bar' = w.bar
  /\ hist' = w.hist
  /\ op' = name

-----------------------------------------------------------------------------
(* The engine: its commands, the events of its collaborators and the       *)
(* completions of what it awaits.                                          *)

InitWith(lim) ==
  /\ \E s \in EngineSensitivities, t \in EngineTimeouts :
       /\ eng = NewEngine(s, t)
       /\ vad = NewVad(s, t, DefaultFrameDurationMs)
  /\ res = NoResult
  /\ op = "new"
  /\ obs = NoObs
  /\ audio = NewAudio
  /\ pending = << >>
  /\ starts = 0
  /\ bar = SetIdle(NewBar)
  /\ hist = NewHist(lim)

Init == InitWith(Lim)

\* what the bounds of the model allow of a handler's effect
Within(w) ==
  /\ w.eng.speechBuffer.n <= w.hist.lim.buffered
  /\ w.vad.speechFrames <= w.hist.lim.speech
  /\ w.hist.chunks <= w.hist.lim.chunks
  /\ w.obs.quiet <= MaxQuiet
  /\ Len(w.pending) <= w.hist.lim.pending
  /\ w.audio.stale <= w.hist.lim.stale
  /\ w.starts <= MaxStarts

\* a session started by the handler is the session of that handler
Named(w, name) ==
  IF w.hist.by = "new" THEN [w EXCEPT !.hist.by = name] ELSE w

Do(w, name) ==
  \E w1 \in {Named(Renumber(RunMicro(w)), name)} : Within(w1) /\ Commit(w1, name)

\* a 'data' event of a capture process: onAudioChunk(chunk)
OnAudioChunk(chunks) ==
  \E c \in chunks :
    /\ audio.process = "live" \/ audio.stale > 0
    /\ ~vad.calibrated => c.rms = Silent
    /\ c.to = "calibrating" => ~vad.calibrated
    /\ c.to = "calibrated" => vad.calibrated
    /\ Do(OnAudioChunkOp(Fresh(World), c.size, c.rms), "audio")

\* the command voxpilot.toggleListening
Toggle ==
  LET w == Fresh(World)
  IN Do(IF eng.isListening THEN StopListening(w) ELSE StartListening(w), "toggle")

\* quickCapture() that does not set isQuickCapture when it starts
QuickCaptureOpBad(w) ==
  IF w.eng.isListening
  THEN FinalizeSpeech([w EXCEPT !.eng.isQuickCapture = FALSE], "cancelStop")
  ELSE StartListening(w)

\* the command voxpilot.pushToTalk
QuickCaptureOp(w) ==
  IF w.eng.isListening
  THEN FinalizeSpeech([w EXCEPT !.eng.isQuickCapture = FALSE], "cancelStop")
  ELSE StartListening([w EXCEPT !.eng.isQuickCapture = TRUE])

QuickCapture == Do(QuickCaptureOp(Fresh(World)), "quick")

\* startListening() that goes on to start the session when ensureTranscriber
\* has thrown
EnsuredBad(w, outcome) ==
  LET w1 == IF outcome = "null" THEN w
            ELSE [w EXCEPT !.eng.transcriber = outcome]
  IN [StartTail(Show(w1, SetError(w1.bar, "Model load failed"))) EXCEPT
        !.hist.load = IF w.hist.lim.modes THEN outcome ELSE "none"]

\* startListening() from the return of ensureTranscriber: the model is
\* loaded ("loaded"), or ensureOnnxRuntime has thrown and the transcriber is
\* as it was ("null"), or transcriber.load has thrown and the transcriber
\* is one that is not loaded ("unloaded")
Ensured(w, outcome) ==
  LET w1 == IF outcome = "null" THEN w
            ELSE [w EXCEPT !.eng.transcriber = outcome]
      w2 == IF outcome = "loaded" THEN StartTail(w1)
            ELSE Show(w1, SetError(w1.bar, "Model load failed"))
  IN [w2 EXCEPT !.hist.load = IF w.hist.lim.modes THEN outcome ELSE "none"]

\* ensureTranscriber of a waiting startListening call ends
EnsureDone ==
  /\ starts > 0
  /\ \E outcome \in {"loaded", "null", "unloaded"} :
       Do(Ensured([Fresh(World) EXCEPT !.starts = @ - 1], outcome), "ensure")

\* how an awaited transcription ends: with a text, with an empty text or
\* with an error; the status bar alone tells them apart
Outcomes(lim) == IF lim.bar THEN {"text", "empty", "error"} ELSE {"empty"}

\* a transcription ends and its finalizeSpeech call goes on to its end
TranscribeDone ==
  \E i \in 1..Len(pending), outcome \in Outcomes(hist.lim) :
    LET p == pending[i]
        w == [Fresh(World) EXCEPT
                !.pending = SubSeq(pending, 1, i - 1) \o SubSeq(pending, i + 1, Len(pending)),
                !.hist.late = hist.lim.modes /\ ~p.own,
                !.hist.cont = IF hist.lim.modes THEN p.then ELSE "none",
                !.micro = IF p.then = "none" THEN << >> ELSE <<p.then>>]
    IN Do(ShowState(IF outcome = "text" THEN Show(w, SetSent(w.bar)) ELSE w),
          "transcribed")

\* the observer of a detector put in place of another: the frames in the
\* speech buffer have been classified
Replaced(w) ==
  IF w.hist.lim.modes
  THEN [w EXCEPT !.hist.held = w.eng.speechBuffer.n]
  ELSE w

\* the voxpilot settings change: the detector is replaced
ConfigChange ==
  \E s \in EngineSensitivities, t \in EngineTimeouts :
    /\ <<s, t>> # <<eng.sensitivity, eng.silenceTimeout>>
    /\ Do(Replaced([Fresh(World) EXCEPT
                      !.eng.sensitivity = s, !.eng.silenceTimeout = t,
                      !.vad = NewVad(s, t, DefaultFrameDurationMs),
                      !.obs = NoObs]), "config")

\* the command voxpilot.selectModel with a model picked; updating the
\* voxpilot.model setting replaces the detector when the setting changes
SelectModelOp(w, changed) ==
  LET w1 == IF changed
            THEN Replaced([w EXCEPT
                             !.vad = NewVad(w.eng.sensitivity, w.eng.silenceTimeout,
                                            DefaultFrameDurationMs),
                             !.obs = NoObs])
            ELSE w
  IN [w1 EXCEPT !.eng.transcriber = "null"]

SelectModel ==
  \E changed \in BOOLEAN : Do(SelectModelOp(Fresh(World), changed), "select")

\* the 'error' event of the capture process
\* the error listener of the engine; the message of the error is "error"
ErrorListener(w) == StopListening(Show(w, SetError(w.bar, "error")))

AudioError ==
  /\ audio.process = "live"
  /\ Do(ErrorListener([Fresh(World) EXCEPT !.audio.isCapturing = FALSE]), "error")

\* the timer of setSent runs out
SentTimer ==
  /\ bar.sentTimeout = "armed"
  /\ Do([Fresh(World) EXCEPT !.bar = SentTimeout(@)], "timer")

\* the 'close' event of the capture process the AudioCapture holds
ProcessExit ==
  /\ audio.process = "live"
  /\ Do([Fresh(World) EXCEPT !.audio.process = "closed",
                             !.audio.isCapturing = FALSE], "exit")

\* the 'close' event of a capture process that was killed
StaleClose ==
  /\ audio.stale > 0
  /\ Do([Fresh(World) EXCEPT !.audio.stale = @ - 1,
                             !.audio.isCapturing = FALSE], "close")

Next ==
  \/ OnAudioChunk(Chunks)
  \/ Toggle
  \/ QuickCapture
  \/ EnsureDone
  \/ TranscribeDone
  \/ ConfigChange
  \/ SelectModel
  \/ AudioError
  \/ ProcessExit
  \/ StaleClose
  \/ SentTimer

Spec == Init /\ [][Next]_vars

\* The segmenter: sessions are started and stopped and fed chunks of any
\* size, and the observer keeps every frame of the session.
SegInit == InitWith(SegLim)

SegNext ==
  \/ OnAudioChunk(SegChunks)
  \/ Toggle
  \/ EnsureDone

SegSpec == SegInit /\ [][SegNext]_vars

\* The modes of listening.  Sessions are started and stopped by toggle and by
\* quickCapture, the model loads or fails to load, and a session is fed its
\* calibration, the frames of an onset and frames of silence; the observer
\* keeps the handler that started the session.
ModeChunks ==
  [size : {calibrationTarget * FRAME_SIZE}, rms : {Silent}, to : {"calibrating"}]
    \cup [size : {speechOnsetFrames * FRAME_SIZE}, rms : {Loud}, to : {"calibrated"}]
    \cup [size : {FRAME_SIZE}, rms : {Silent}, to : {"calibrated"}]

ModeInit == InitWith(ModeLim)

ModeNext ==
  \/ OnAudioChunk(ModeChunks)
  \/ Toggle
  \/ QuickCapture
  \/ EnsureDone
  \/ TranscribeDone
  \/ StaleClose

ModeSpec == ModeInit /\ [][ModeNext]_vars

\* The status bar.  Sessions are started and stopped by toggle and fed their
\* calibration, the frames of an onset and frames of silence; transcriptions
\* end, the capture process fails and the timer of setSent runs out.
BarInit == InitWith(BarLim)

BarNext ==
  \/ OnAudioChunk(ModeChunks)
  \/ Toggle
  \/ EnsureDone
  \/ TranscribeDone
  \/ AudioError
  \/ SentTimer

BarSpec == BarInit /\ [][BarNext]_vars

\* The switches of the model.  As the modes of listening, with sessions
\* started and stopped by toggle; a model is selected, in a session and
\* between sessions.
SwitchInit == InitWith(SwitchLim)

SwitchNext ==
  \/ OnAudioChunk(ModeChunks)
  \/ Toggle
  \/ EnsureDone
  \/ TranscribeDone
  \/ SelectModel

SwitchSpec == SwitchInit /\ [][SwitchNext]_vars

\* The accumulator up to MAX_SPEECH_BYTES.  The exploration starts in a
\* session, begun by toggle or by quickCapture with the model loaded, that has
\* been fed a silent calibration, the three frames of an onset and WarmFrames
\* frames of speech in two chunks; from there frames are fed one by one,
\* sessions are stopped and started and the settings change.
Started(s, t, quick) ==
  StartTail([vad |-> NewVad(s, t, DefaultFrameDurationMs), res |-> NoResult,
             obs |-> NoObs,
             eng |-> [NewEngine(s, t) EXCEPT !.transcriber = "loaded",
                                             !.isQuickCapture = quick],
             audio |-> NewAudio, pending |-> << >>, starts |-> 0,
             bar |-> SetIdle(NewBar), hist |-> NewHist(CapLim),
             micro |-> << >>])

CapInit ==
  \E s \in EngineSensitivities, t \in EngineTimeouts, quick \in BOOLEAN :
    \E w1 \in {OnAudioChunkOp(Started(s, t, quick),
                               calibrationTarget * FRAME_SIZE, Silent)} :
      \E w2 \in {OnAudioChunkOp(w1, speechOnsetFrames * FRAME_SIZE, Loud)} :
        \E w3 \in {OnAudioChunkOp(w2, (WarmFrames \div 2) * FRAME_SIZE, Loud)} :
          \E w4 \in {OnAudioChunkOp(w3, (WarmFrames - WarmFrames \div 2) * FRAME_SIZE,
                                     Loud)} :
            \E w \in {Renumber([Fresh(w4) EXCEPT !.hist.chunks = 0])} :
              /\ vad = w.vad
              /\ res = w.res
              /\ obs = w.obs
              /\ eng = w.eng
              /\ audio = w.audio
              /\ pending = w.pending
              /\ starts = w.starts
              /\ bar = w.bar
              /\ hist = w.hist
              /\ op = "audio"

CapNext ==
  \/ OnAudioChunk(CapChunks)
  \/ Toggle
  \/ QuickCapture
  \/ TranscribeDone
  \/ ConfigChange
  \/ StaleClose

CapSpec == CapInit /\ [][CapNext]_vars

\* The changes of the settings.  The exploration starts in a session, begun
\* by toggle with the model loaded, that has been fed a silent calibration;
\* from there the session is fed the frames of an onset, frames of silence
\* and calibrations, the settings change and the session is stopped.
CfgInit ==
  \E s \in EngineSensitivities, t \in EngineTimeouts :
    \E w0 \in {[Started(s, t, FALSE) EXCEPT !.hist.lim = CfgLim]} :
      \E w1 \in {OnAudioChunkOp(w0, calibrationTarget * FRAME_SIZE, Silent)} :
        \E w \in {Renumber([Fresh(w1) EXCEPT !.hist.chunks = 0])} :
          /\ vad = w.vad
          /\ res = w.res
          /\ obs = w.obs
          /\ eng = w.eng
          /\ audio = w.audio
          /\ pending = w.pending
          /\ starts = w.starts
          /\ bar = w.bar
          /\ hist = w.hist
          /\ op = "audio"

CfgNext ==
  \/ OnAudioChunk(ModeChunks)
  \/ ConfigChange
  \/ TranscribeDone
  \/ Toggle

CfgSpec == CfgInit /\ [][CfgNext]_vars

\* The flushes of a session.  The exploration starts as that of the
\* accumulator up to MAX_SPEECH_BYTES does, in a session one frame short of
\* the max-size flush, and the observer keeps every frame of the session;
\* the settings do not change, so that a session has one detector.
FlushInit ==
  \E s \in EngineSensitivities, t \in EngineTimeouts, quick \in BOOLEAN :
    \E w0 \in {[Started(s, t, quick) EXCEPT !.hist.lim = FlushLim]} :
      \E w1 \in {OnAudioChunkOp(w0, calibrationTarget * FRAME_SIZE, Silent)} :
        \E w2 \in {OnAudioChunkOp(w1, speechOnsetFrames * FRAME_SIZE, Loud)} :
          \E w3 \in {OnAudioChunkOp(w2, (WarmFrames \div 2) * FRAME_SIZE, Loud)} :
            \E w4 \in {OnAudioChunkOp(w3, (WarmFrames - WarmFrames \div 2) * FRAME_SIZE,
                                       Loud)} :
              \E w \in {[Fresh(w4) EXCEPT !.hist.chunks = 0]} :
                /\ vad = w.vad
                /\ res = w.res
                /\ obs = w.obs
                /\ eng = w.eng
                /\ audio = w.audio
                /\ pending = w.pending
                /\ starts = w.starts
                /\ bar = w.bar
                /\ hist = w.hist
                /\ op = "audio"

FlushNext ==
  \/ OnAudioChunk(CapChunks)
  \/ Toggle
  \/ QuickCapture
  \/ TranscribeDone
  \/ StaleClose

FlushSpec == FlushInit /\ [][FlushNext]_vars

\* The accumulator of utterances.  The exploration starts in a session, begun
\* by toggle or by quickCapture with a transcriber that is loaded or has
\* failed to load, in which a model may then have been selected, and that has
\* been fed a silent calibration.
AccInit ==
  \E s \in AccSensitivities, t \in EngineTimeouts, quick \in BOOLEAN,
     tr \in {"loaded", "unloaded"}, select \in BOOLEAN :
    \E w0 \in {[Started(s, t, quick) EXCEPT !.hist.lim = AccLim,
                                            !.eng.transcriber = tr]} :
      \E w1 \in {OnAudioChunkOp(IF select THEN SelectModelOp(w0, TRUE) ELSE w0,
                                 calibrationTarget * FRAME_SIZE, Silent)} :
        \E w \in {Renumber([Fresh(w1) EXCEPT !.hist.chunks = 0])} :
          /\ vad = w.vad
          /\ res = w.res
          /\ obs = w.obs
          /\ eng = w.eng
          /\ audio = w.audio
          /\ pending = w.pending
          /\ starts = w.starts
          /\ bar = w.bar
          /\ hist = w.hist
          /\ op = "audio"

AccNext ==
  \/ OnAudioChunk(AccChunks)
  \/ Toggle
  \/ QuickCapture
  \/ TranscribeDone
  \/ StaleClose

AccSpec == AccInit /\ [][AccNext]_vars

\* Scripted utterances.  A session with the default settings (sensitivity
\* 0.5, silenceTimeout 1500), begun by toggle or by quickCapture with the
\* model loaded, is fed one frame per chunk: calibrationTarget frames of RMS
\* cal, then speechOnsetFrames + ScnSpeech frames of RMS speech, then
\* ScnSilence frames of RMS 0.  The observer keeps every frame.
Scripts ==
  { [cal |-> 10000, speech |-> 50000],
    [cal |-> 0, speech |-> 500000] }

ScnFrames == calibrationTarget + speechOnsetFrames + ScnSpeech + ScnSilence

ScnLim(script) ==
  [track |-> TRUE, buffered |-> MAX_SPEECH_BYTES \div FRAME_SIZE,
   speech |-> ScnFrames, chunks |-> ScnFrames, pending |-> MaxPending,
   stale |-> MaxStale, notes |-> FALSE, modes |-> FALSE, bar |-> FALSE,
   script |-> script]

\* the RMS of the k-th frame of the script
ScriptRms(script, k) ==
  IF k <= calibrationTarget THEN script.cal
  ELSE IF k <= calibrationTarget + speechOnsetFrames + ScnSpeech THEN script.speech
  ELSE 0

ScnInit ==
  \E script \in Scripts, quick \in BOOLEAN :
    \E w \in {[Started(50, 1500, quick) EXCEPT !.hist.lim = ScnLim(script)]} :
      /\ vad = w.vad
      /\ res = w.res
      /\ obs = w.obs
      /\ eng = w.eng
      /\ audio = w.audio
      /\ pending = w.pending
      /\ starts = w.starts
      /\ bar = w.bar
      /\ hist = w.hist
      /\ op = "toggle"

\* the next frame of the script arrives
ScnFeed ==
  LET rms == ScriptRms(hist.lim.script, hist.chunks + 1)
      w   == OnAudioChunkOp(Fresh(World), FRAME_SIZE, <<rms, rms>>)
  IN \E w1 \in {RunMicro(w)} :
       /\ w1.hist.chunks <= w1.hist.lim.chunks
       /\ Len(w1.pending) <= w1.hist.lim.pending
       /\ Commit(w1, "audio")

ScnNext == ScnFeed

ScnSpec == ScnInit /\ [][ScnNext]_vars

-----------------------------------------------------------------------------
(* Properties of the frame segmenter, checked under SegSpec.               *)

\* C1: within a listening session the frames handed to processFrame, in
\* order, followed by the residual pendingAudio are exactly the bytes fed, in
\* order: no byte is dropped, reordered or duplicated, and the residual is
\* shorter than one frame.
C1_Conservation ==
  /\ BufCat(hist.emitted, eng.pendingAudio) = Run(0, hist.fed)
  /\ BufLen(hist.emitted) + BufLen(eng.pendingAudio) = hist.fed
  /\ BufLen(eng.pendingAudio) < FRAME_SIZE

\* frames have been emitted in a session fed chunks of odd sizes, and a
\* residual is held
C1_Witness ==
  /\ op = "audio"
  /\ BufLen(hist.emitted) >= 2 * FRAME_SIZE
  /\ hist.chunk % 2 = 1
  /\ hist.residual > 0
  /\ BufLen(eng.pendingAudio) > 0

\* C2: every frame handed to the detector is exactly FRAME_SIZE bytes, and
\* when onAudioChunk returns the residual is shorter than FRAME_SIZE and its
\* length is (previous residual + chunk length) mod FRAME_SIZE.
C2_FrameSize ==
  /\ \A l \in hist.frameLens : l = FRAME_SIZE
  /\ BufLen(eng.pendingAudio) < FRAME_SIZE
  /\ op = "audio" =>
       /\ BufLen(eng.pendingAudio) = (hist.residual + hist.chunk) % FRAME_SIZE
       /\ BufLen(hist.framesOut) =
            FRAME_SIZE * ((hist.residual + hist.chunk) \div FRAME_SIZE)

\* a chunk one byte longer than two frames met a residual and completed
\* frames; a chunk met a residual one byte short of a frame
C2_Witness ==
  /\ op = "audio"
  /\ hist.residual > 0
  /\ hist.chunk > 2 * FRAME_SIZE
  /\ hist.frameLens = {FRAME_SIZE}
  /\ BufLen(eng.pendingAudio) > 0

\* C17, as claimed: a chunk whose byte count is odd is rejected, and the
\* residual and the speech buffer are as they were before it was fed.
C17_MisalignedRejected ==
  [][(op' = "audio" /\ hist'.chunk % 2 = 1)
     => (/\ eng'.pendingAudio = eng.pendingAudio
         /\ eng'.speechBuffer = eng.speechBuffer
         /\ hist'.frameLens = {})]_vars

\* C17, amended: a chunk whose byte count is odd is taken like any other:
\* its bytes are appended to the residual, whose length becomes (previous
\* residual + chunk length) mod FRAME_SIZE after the frames completed have
\* been handed on, and the residual changes.
C17_MisalignedAccepted ==
  [][(op' = "audio" /\ hist'.chunk % 2 = 1)
     => (/\ hist'.residual = BufLen(eng.pendingAudio)
         /\ BufLen(eng'.pendingAudio) = (hist'.residual + hist'.chunk) % FRAME_SIZE
         /\ BufCat(hist'.framesOut, eng'.pendingAudio) = hist'.input
         /\ eng'.pendingAudio # eng.pendingAudio)]_vars

\* a chunk of an odd number of bytes was fed and the residual held is odd
C17_Witness ==
  /\ op = "audio"
  /\ hist.chunk % 2 = 1
  /\ BufLen(eng.pendingAudio) % 2 = 1
  /\ hist.frameLens = {FRAME_SIZE}

-----------------------------------------------------------------------------
(* Properties of the speech accumulator, checked under CapSpec.            *)

\* C3: every buffer handed to transcribe is longer than 0 and at most
\* MAX_SPEECH_BYTES (480000) bytes, and whenever processFrame returns the
\* speech buffer holds fewer than MAX_SPEECH_BYTES bytes.
C3_SegmentBound ==
  /\ \A i \in 1..Len(hist.calls) :
       /\ BufLen(hist.calls[i]) > 0
       /\ BufLen(hist.calls[i]) <= MAX_SPEECH_BYTES
  /\ hist.peak < MAX_SPEECH_BYTES
  /\ BufLen(eng.speechBuffer.data) < MAX_SPEECH_BYTES

\* the frame that carries speechEnded completed a segment of exactly
\* MAX_SPEECH_BYTES, which was handed to transcribe
C3_Witness ==
  /\ op = "audio"
  /\ res.speechEnded
  /\ Len(hist.calls) = 1
  /\ BufLen(hist.calls[1]) = MAX_SPEECH_BYTES

\* C4: a frame classified as speech with which the accumulated length
\* reaches MAX_SPEECH_BYTES forces the flush in the same processFrame call:
\* the buffer is emptied and, with a transcriber, handed over whole, while
\* the detector stays Speaking and no speechEnded was returned.
C4_ForcedFlush ==
  [][(/\ op' = "audio"
      /\ eng'.audioChunkCount = eng.audioChunkCount + 1
      /\ res'.isSpeech
      /\ BufLen(eng.speechBuffer.data) + FRAME_SIZE >= MAX_SPEECH_BYTES)
     => (/\ eng'.speechBuffer = NoSpeech
         /\ hist'.peak = 0
         /\ vad'.isSpeaking
         /\ ~res'.speechEnded
         /\ eng.transcriber # "null" =>
              /\ Len(hist'.calls) = 1
              /\ BufLen(hist'.calls[1]) = BufLen(eng.speechBuffer.data) + FRAME_SIZE
              /\ BufLen(hist'.calls[1]) = MAX_SPEECH_BYTES)]_vars

\* an above-threshold frame fed while Speaking completed MAX_SPEECH_BYTES and
\* the segment was handed to transcribe at once
C4_Witness ==
  /\ op = "audio"
  /\ res.isSpeech
  /\ res.rms = Loud[1]
  /\ ~res.speechEnded
  /\ vad.isSpeaking
  /\ Len(hist.calls) = 1
  /\ BufLen(hist.calls[1]) = MAX_SPEECH_BYTES
  /\ eng.speechBuffer = NoSpeech

\* C16: when a session starts and when the settings change, the detector
\* that will process the next frame has the fields of a newly constructed one
\* with the settings in force: it is calibrating, and its noise floor and
\* counters are cleared.
C16_FreshDetector ==
  [][(\/ op' = "config"
      \/ (op' \in {"toggle", "quick"} /\ ~eng.isListening /\ eng'.isListening))
     => (/\ vad' = NewVad(eng'.sensitivity, eng'.silenceTimeout,
                          DefaultFrameDurationMs)
         /\ ~vad'.calibrated
         /\ vad'.noiseFloor = 0)]_vars

\* a session was started after one in which the detector had been Speaking
\* was stopped
C16_Witness ==
  /\ op \in {"toggle", "quick"}
  /\ eng.isListening
  /\ audio.stale > 0
  /\ ~vad.calibrated
  /\ vad.calibrationFrames = 0

-----------------------------------------------------------------------------
(* Properties of the accumulator of utterances, checked under AccSpec.     *)

\* C11: a frame is appended to the speech buffer if and only if its result
\* has isSpeech or speechEnded; a frame whose result leaves the detector
\* calibrating, or in Silence without speechEnded, is not appended.
C11_AppendIffSpeech ==
  \A n \in hist.seen :
    /\ n.appended <=> (n.isSpeech \/ n.speechEnded)
    /\ (n.calibrating \/ (~n.speaking /\ ~n.speechEnded)) => ~n.appended

\* one handler processed a frame in Silence that was not appended and the
\* onset frame that was
C11_Witness ==
  /\ \E n \in hist.seen : ~n.appended /\ ~n.calibrating /\ ~n.speaking
  /\ \E n \in hist.seen : n.appended /\ n.isSpeech
  /\ eng.speechBuffer.n = 1

\* C12: the processFrame call of a frame carrying speechEnded leaves the
\* speech buffer empty, and with a transcriber makes one transcribe call;
\* what a processFrame call hands over is the buffer with its frame appended
\* last; and the speech buffer is empty after a handler that handed a buffer
\* over (on speechEnded, on stop or on the cancelling quickCapture).
C12_FlushOnSpeechEnded ==
  /\ \A n \in hist.seen :
       /\ n.speechEnded =>
            /\ n.holds = 0
            /\ n.appended
            /\ n.transcriber # "null" => n.calls = 1
       /\ n.calls > 0 => n.holds = 0 /\ n.last /\ n.whole /\ n.calls = 1
  /\ (op \in {"toggle", "quick"} /\ Len(hist.calls) > 0) =>
       eng.speechBuffer = NoSpeech

\* the frame that carried speechEnded was handed over with the speech
\* frames before it
C12_Witness ==
  /\ op = "audio"
  /\ res.speechEnded
  /\ \E n \in hist.seen : n.speechEnded /\ n.calls = 1 /\ n.held >= 2 /\ n.holds = 0
  /\ Len(hist.calls) = 1
  /\ BufLen(hist.calls[1]) >= 3 * FRAME_SIZE

\* C13: the quickCapture that cancels a session whose speech buffer is
\* empty calls finalizeSpeech, which makes no transcribe call, awaits no
\* transcription and leaves the speech buffer as it is; and no empty buffer
\* is ever handed to transcribe.
C13_NoEmptyFlush ==
  [][/\ (/\ op' = "quick"
         /\ eng.isListening
         /\ eng.speechBuffer.n = 0)
        => (/\ hist'.calls = << >>
            /\ Len(pending') = Len(pending)
            /\ eng'.speechBuffer = eng.speechBuffer
            /\ hist'.overlap = hist.overlap)
     /\ \A i \in 1..Len(hist'.calls) : hist'.calls[i] # Empty]_vars

\* finalizeSpeech was called with an empty speech buffer by the cancelling
\* quickCapture
C13_Witness ==
  /\ op = "quick"
  /\ hist.noop
  /\ ~eng.isListening
  /\ hist.calls = << >>

\* a buffer with its first byte at place 0
Shape(b) == IF b = Empty THEN Empty ELSE Shift(b, b[1][1])

\* C14: no byte is handed to transcribe twice in a session: what the speech
\* buffer holds lies behind everything handed over; and a handler that
\* processes audio leaves the buffers of the transcriptions awaited as they
\* are, in their order.
C14_HandedOnce ==
  [][/\ ~hist'.overlap
     /\ eng'.speechBuffer.n > 0 => eng'.speechBuffer.data[1][1] >= hist'.mark
     /\ op' = "audio" =>
          /\ Len(pending') >= Len(pending)
          /\ \A i \in 1..Len(pending) :
               /\ Shape(pending'[i].data) = Shape(pending[i].data)
               /\ pending'[i].then = pending[i].then]_vars

\* while the transcription of a segment of this session is awaited, frames
\* of a later utterance are in the speech buffer
C14_Witness ==
  /\ op = "audio"
  /\ Len(pending) = 1
  /\ pending[1].data # Empty
  /\ BufEnd(pending[1].data) = hist.mark
  /\ eng.speechBuffer.n >= 1
  /\ eng.speechBuffer.data[1][1] > hist.mark

-----------------------------------------------------------------------------
(* The detector alone: a constructed instance is fed frames and reset.     *)

VadInit ==
  /\ \E s \in Sensitivities, t \in SilenceTimeouts, d \in FrameDurations :
       /\ vad = NewVad(s, t, d)
       /\ eng = NewEngine(s, t)
  /\ res = NoResult
  /\ op = "new"
  /\ obs = NoObs
  /\ audio = NewAudio
  /\ pending = << >>
  /\ starts = 0
  /\ bar = NewBar
  /\ hist = NewHist(Lim)

VadProcess ==
  \E rms \in RmsLevels :
    /\ MayFeed(vad, obs, rms)
    /\ LET p == Process(vad, rms)
       IN /\ vad' = p.v
          /\ res' = p.r
          /\ obs' = Observe(obs, vad, p.r)
    /\ op' = "process"
    /\ UNCHANGED <<eng, audio, pending, starts, bar, hist>>

VadResetStep ==
  /\ op = "process"
  /\ vad' = VadReset(vad)
  /\ res' = NoResult
  /\ op' = "reset"
  /\ obs' = [NoObs EXCEPT !.reset = IF vad.isSpeaking THEN "speaking"
                                    ELSE IF vad.calibrated THEN "silence"
                                    ELSE "calibrating"]
  /\ UNCHANGED <<eng, audio, pending, starts, bar, hist>>

VadNext == VadProcess \/ VadResetStep

\* The detector fed buffers of samples: process(pcm16) computes the RMS of
\* the buffer it is given, and the buffer may be of no samples at all.
PcmFrames ==
  { << >>, <<0>>, <<0, 0>>, <<328, -328>>, <<16384>>, <<16384, -16384>> }

PcmInit ==
  /\ \E s \in EngineSensitivities, t \in EngineTimeouts :
       /\ vad = NewVad(s, t, DefaultFrameDurationMs)
       /\ eng = NewEngine(s, t)
  /\ res = NoResult
  /\ op = "new"
  /\ obs = NoObs
  /\ audio = NewAudio
  /\ pending = << >>
  /\ starts = 0
  /\ bar = NewBar
  /\ hist = NewHist(Lim)

\* process(pcm16); the observer keeps the byte length of the buffer
PcmProcess ==
  \E pcm16 \in PcmFrames :
    \E rms \in {ComputeRMS(pcm16)} :
      /\ MayFeed(vad, obs, rms)
      /\ LET p == Process(vad, rms)
         IN /\ vad' = p.v
            /\ res' = p.r
            /\ obs' = Observe(obs, vad, p.r)
      /\ op' = "pcm"
      /\ hist' = [hist EXCEPT !.chunk = 2 * Len(pcm16)]
      /\ UNCHANGED <<eng, audio, pending, starts, bar>>

PcmNext == PcmProcess

PcmSpec == PcmInit /\ [][PcmNext]_vars

VadSpec == VadInit /\ [][VadNext]_vars

-----------------------------------------------------------------------------
(* Properties of the modes of listening, checked under ModeSpec.           *)

\* the awaited transcription that ended in the step, if one did
Ended(then) ==
  \E i \in 1..Len(pending) :
    /\ pending[i].then = then
    /\ pending' = SubSeq(pending, 1, i - 1) \o SubSeq(pending, i + 1, Len(pending))

\* the engine has stopped listening
Stopped(e, a) == ~e.isListening /\ ~e.isQuickCapture /\ ~a.isCapturing

C25_ToggleIsContinuous ==
  [][/\ (op' = "toggle" /\ ~eng.isListening) =>
          /\ eng.transcriber # "null" =>
               eng'.isListening /\ audio'.isCapturing /\ hist'.by = "toggle"
          /\ eng.transcriber = "null" => starts' = starts + 1
     /\ (op' = "toggle" /\ eng.isListening) => Stopped(eng', audio')
     /\ (eng.isListening /\ hist.by = "toggle"
           /\ op' \in {"audio", "transcribed", "ensure", "close"}) =>
          eng'.isListening]_vars

\* C26: a handler in which stopListening ends the session leaves the engine
\* with isListening and isQuickCapture false, the speech buffer empty and
\* the capture stopped; when it is the toggle command, the speech the buffer
\* held is handed to transcribe as one segment, and nothing is handed over
\* when it held none.
C26_StopFlushes ==
  [][(eng.isListening /\ ~eng'.isListening) =>
       /\ Stopped(eng', audio')
       /\ eng'.speechBuffer = NoSpeech
       /\ audio'.process # "live"
       /\ eng'.audioChunkCount = 0
       /\ op' = "toggle" =>
            IF eng.speechBuffer.n > 0
            THEN /\ Len(hist'.calls) = 1
                 /\ BufLen(hist'.calls[1]) = BufLen(eng.speechBuffer.data)
                 /\ BufLen(hist'.calls[1]) = eng.speechBuffer.n * FRAME_SIZE
            ELSE hist'.calls = << >>]_vars

\* toggle stopped a session in the middle of an utterance and its speech is
\* being transcribed
C26_Witness ==
  /\ op = "toggle"
  /\ ~eng.isListening
  /\ Len(hist.calls) = 1
  /\ Len(pending) = 1
  /\ pending[1].then = "none"
  /\ eng.speechBuffer = NoSpeech
  /\ vad.isSpeaking

\* C31: the continuation that processFrame gives the finalizeSpeech call of
\* a segment ended by speechEnded acts only on the session that made the
\* call: when the transcription ends after that session was stopped and
\* another was started, the session that is listening goes on listening.
C31_ContinuationKeepsToItsSession ==
  [][(op' = "transcribed" /\ hist'.late /\ hist'.cont = "quickStop"
        /\ eng.isListening)
       => eng'.isListening]_vars

\* C32: whenever no startListening call is awaiting the model, isQuickCapture
\* implies isListening: quick-capture mode is not left armed by a quickCapture
\* call whose model load failed.
C32_QuickImpliesListening ==
  starts = 0 => (eng.isQuickCapture => eng.isListening)

\* C37: while the engine is listening, a handler that flushes speech hands
\* every segment to a transcriber: no segment is lost because the
\* transcriber has been set to null by a model switch.
C37_FlushReachesLoadedTranscriber ==
  [][eng.isListening => hist'.lost # "null"]_vars

\* C34: isCapturing is true exactly when the AudioCapture holds a process it
\* has started and that has been neither stopped nor closed; the close event
\* of a process that was stopped before leaves it so.
C34_CapturingIffLiveProcess ==
  audio.isCapturing <=> audio.process = "live"

\* C35: an audio chunk delivered while the engine is not listening does not
\* reach the detector and adds no frame to the speech buffer.
C35_NoAudioWhenNotListening ==
  [][(op' = "audio" /\ ~eng.isListening) =>
       /\ vad' = vad
       /\ eng'.speechBuffer = eng.speechBuffer]_vars

-----------------------------------------------------------------------------
(* Properties of the switches of the model, checked under SwitchSpec.      *)

\* C33: when ensureTranscriber throws, startListening leaves isListening as
\* it was (false, unless another call has started a session meanwhile), does
\* not start the capture, and does not modify the detector, the residual
\* and the speech buffer.
C33_FailedLoadLeavesEngine ==
  [][(op' = "ensure" /\ hist'.load \in {"null", "unloaded"}) =>
       /\ eng'.isListening = eng.isListening
       /\ audio' = audio
       /\ vad' = vad
       /\ eng'.pendingAudio = eng.pendingAudio
       /\ eng'.speechBuffer = eng.speechBuffer]_vars

\* a load has failed in an engine whose detector was calibrated in an
\* earlier session
C33_Witness ==
  /\ op = "ensure"
  /\ hist.load = "unloaded"
  /\ ~eng.isListening
  /\ ~audio.isCapturing
  /\ audio.process = "none"
  /\ vad.calibrated
  /\ eng.speechBuffer = NoSpeech

-----------------------------------------------------------------------------
(* Properties of the changes of the settings, checked under CfgSpec.       *)

\* C36: the frames that are in the speech buffer when the detector is
\* replaced in a session are handed to transcribe as a segment of their own:
\* the next segment handed over is those frames and no frame classified by
\* the new detector.
C36_ConfigChangeKeepsSegmentsApart ==
  [][(eng.isListening /\ hist.held > 0 /\ Len(hist'.calls) > 0) =>
       BufLen(hist'.calls[1]) = hist.held * FRAME_SIZE]_vars

-----------------------------------------------------------------------------
(* Properties of the status bar, checked under BarSpec.                    *)

\* C38: when the error listener of the engine has handled an error of the
\* capture, the engine is not listening and the status bar is in the error
\* state, showing the message of the error.
C38_ErrorStateStays ==
  [][op' = "error" =>
       /\ ~eng'.isListening
       /\ bar'.text = "error"
       /\ bar'.tooltip = "error"
       /\ bar'.backgroundColor = "error"]_vars

\* C39: when the timer of setSent runs out, the status bar shows the
\* listening text if the engine is listening and the idle text if it is not,
\* and a text that setListening, setSpeechDetected or setProcessing has set
\* since is left as it is.
C39_SentTimerFollowsEngine ==
  [][op' = "timer" =>
       /\ bar'.text = IF eng.isListening THEN "listening" ELSE "idle"
       /\ bar.text \in {"listening", "speaking", "processing"} =>
            bar'.text = bar.text]_vars

-----------------------------------------------------------------------------
(* Properties of the flushes of a session, checked under FlushSpec.        *)

\* the buffers handed to transcribe in the session, followed by the speech
\* buffer, are the frames of the session whose result had isSpeech or
\* speechEnded, in their order
Conserved(h, e) == BufCat(h.out, e.speechBuffer.data) = h.kept

\* C30: in a session, the segments handed over, concatenated in their order
\* and followed by what the speech buffer holds, are exactly the frames
\* whose result had isSpeech or speechEnded; a max-size flush hands over
\* MAX_SPEECH_BYTES ending with its frame and leaves the detector Speaking
\* and the buffer empty; and a frame processed while Speaking with an empty
\* buffer is the first frame of a new segment and carries no speechStarted.
C30_ConservedAcrossFlushes ==
  [][/\ Conserved(hist, eng)
     /\ Conserved(hist', eng')
     /\ (op' = "audio" /\ eng.isListening /\ Len(hist'.calls) = 1
           /\ ~res'.speechEnded) =>
          /\ res'.isSpeech
          /\ vad'.isSpeaking
          /\ eng'.speechBuffer = NoSpeech
          /\ BufLen(hist'.calls[1]) = MAX_SPEECH_BYTES
          /\ BufEnd(hist'.calls[1]) = hist'.fed
     /\ (op' = "audio" /\ eng.isListening /\ vad.isSpeaking
           /\ eng.speechBuffer.n = 0 /\ eng.pendingAudio = Empty
           /\ hist'.fed = hist.fed + FRAME_SIZE) =>
          /\ ~res'.speechStarted
          /\ res'.isSpeech \/ res'.speechEnded
          /\ BufCat(hist'.out, eng'.speechBuffer.data)
               = BufCat(hist.out, Run(hist.fed, hist'.fed))]_vars

\* after a max-size flush the utterance went on into a second segment that
\* has been handed over too
C30_Witness ==
  /\ op = "audio"
  /\ eng.isListening
  /\ res.speechEnded
  /\ BufLen(hist.out) > MAX_SPEECH_BYTES
  /\ Len(hist.out) = 1
  /\ hist.out = hist.kept
  /\ eng.speechBuffer = NoSpeech

-----------------------------------------------------------------------------
(* The debounce under the settings of the engine, checked under CapSpec.   *)

\* C20: whatever vadSensitivity and silenceTimeout the engine has read from
\* the settings, no single frame takes the detector from Silence to Speaking
\* or back: the frame that carries speechStarted ends a run of at least
\* speechOnsetFrames frames above the threshold, and the frame that carries
\* speechEnded ends a run of at least two frames below it, in a detector
\* whose silenceOnsetFrames is at least 2.  (The counters of the detector
\* are the lengths of the runs its last frame ended.)
C20_DebounceNotBypassed ==
  op = "audio" =>
    /\ res.speechStarted => vad.speechFrames >= speechOnsetFrames
    /\ res.speechEnded =>
         vad.silenceOnsetFrames >= 2 /\ vad.silenceFrames >= 2

-----------------------------------------------------------------------------
(* Properties of the scripted utterances, checked under ScnSpec.           *)

QuietScript == [cal |-> 10000, speech |-> 50000]
ClearScript == [cal |-> 0, speech |-> 500000]

\* C18: with sensitivity 0.5 and 30 ms frames, after 30 calibration frames of
\* RMS 0.01 the noise floor is 0.01, each of the three following frames of
\* RMS 0.05 is above the threshold of its result, and the third of them, and
\* only it, carries speechStarted.
C18_ThirdFrameStarts ==
  (op = "audio" /\ hist.lim.script = QuietScript) =>
    /\ hist.chunks = calibrationTarget => vad.noiseFloor = 10000
    /\ (/\ hist.chunks > calibrationTarget
        /\ hist.chunks <= calibrationTarget + speechOnsetFrames) =>
         /\ res.rms = 50000
         /\ res.rms * 100 > res.threshold
         /\ res.speechStarted <=>
              hist.chunks = calibrationTarget + speechOnsetFrames

\* the places of the frames from the a-th to the b-th of the session
FramesOf(a, b) == Run((a - 1) * FRAME_SIZE, b * FRAME_SIZE)

\* C19 as stated: the segment handed over on speechEnded is the three onset
\* frames and the ScnSpeech speech frames followed by the frame that carried
\* speechEnded, and nothing of the silence before that frame.
C19_OnlyFinalSilentFrame ==
  (op = "audio" /\ hist.lim.script = ClearScript /\ res.speechEnded) =>
    hist.calls =
      << BufCat(FramesOf(calibrationTarget + 1,
                         calibrationTarget + speechOnsetFrames + ScnSpeech),
                FramesOf(hist.chunks, hist.chunks)) >>

\* C19, amended: the segment handed over on speechEnded is one unbroken piece
\* from the third onset frame to the frame that carried speechEnded: the
\* third onset frame, the ScnSpeech speech frames and every one of the
\* silenceOnsetFrames frames of the silence; the first two onset frames are
\* not in it.
C19_WholeTrailingRun ==
  (op = "audio" /\ hist.lim.script = ClearScript /\ res.speechEnded) =>
    /\ hist.chunks = calibrationTarget + speechOnsetFrames + ScnSpeech
                       + vad.silenceOnsetFrames
    /\ hist.calls =
         << FramesOf(calibrationTarget + speechOnsetFrames, hist.chunks) >>
    /\ BufLen(hist.calls[1]) =
         (1 + ScnSpeech + vad.silenceOnsetFrames) * FRAME_SIZE

\* the frame that carried speechEnded has been processed and a segment was
\* handed over
C19_Witness ==
  /\ op = "audio"
  /\ hist.lim.script = ClearScript
  /\ res.speechEnded
  /\ vad.silenceOnsetFrames = 50
  /\ Len(hist.calls) = 1
  /\ eng.speechBuffer = NoSpeech

-----------------------------------------------------------------------------
(* Properties of the detector, checked under VadSpec.                      *)

\* C5: after calibration a frame carries speechStarted exactly when the
\* detector was in Silence and the frame is the third of a run of consecutive
\* above-threshold frames; a shorter run never produces speechStarted.
C5_OnsetDebounce ==
  [][op' = "process" =>
       (res'.speechStarted <=>
          (vad.calibrated /\ ~vad.isSpeaking
             /\ obs'.runAbove = speechOnsetFrames))]_vars

C5_Witness ==
  op = "process" /\ res.speechStarted /\ obs.runAbove = speechOnsetFrames

\* C6: a frame carries speechEnded exactly when the detector was Speaking and
\* the frame is the ceil(silenceTimeoutMs / frameDurationMs)-th of a run of
\* consecutive below-threshold frames; an above-threshold frame restarts the
\* run.
C6_OffsetDebounce ==
  [][(op' = "process" /\ vad.silenceOnsetFrames >= 1) =>
       (res'.speechEnded <=>
          (vad.isSpeaking /\ obs'.runBelow = vad.silenceOnsetFrames))]_vars

C6_Witness ==
  /\ op = "process" /\ res.speechEnded
  /\ vad.silenceOnsetFrames > 1
  /\ obs.runBelow = vad.silenceOnsetFrames

\* C7 as stated: the frame that carries speechEnded has isSpeech = TRUE.
C7_IsSpeechOnFinalFrame == res.speechEnded => res.isSpeech

\* C7 as amended: isSpeech is the Speaking state after the frame; of the
\* frames processed while Speaking it is true on all but the one that carries
\* speechEnded, where it is false.
C7_IsSpeechAfterFrame ==
  [][op' = "process" =>
       /\ res'.isSpeech = vad'.isSpeaking
       /\ vad.isSpeaking => (res'.isSpeech <=> ~res'.speechEnded)
       /\ res'.speechEnded => vad.isSpeaking]_vars

C7_Witness == op = "process" /\ res.speechEnded /\ ~res.isSpeech

\* C8: the first 30 process calls after construction or reset return no
\* speech, no event and threshold 0 whatever the RMS; the 30th sets the noise
\* floor to the mean RMS of the 30 frames and ends calibration in Silence; the
\* 31st frame is the first one classified.
C8_Calibration ==
  op = "process" =>
    /\ obs.frames <= calibrationTarget =>
         /\ ~res.isSpeech /\ ~res.speechStarted /\ ~res.speechEnded
         /\ res.threshold = 0
    /\ obs.frames < calibrationTarget => ~vad.calibrated
    /\ obs.frames = calibrationTarget =>
         /\ vad.calibrated /\ ~vad.isSpeaking
         /\ vad.noiseFloor = obs.sum \div calibrationTarget
    /\ obs.frames > calibrationTarget =>
         /\ vad.calibrated
         /\ res.threshold > 0

C8_Witness ==
  /\ op = "process" /\ obs.frames = calibrationTarget
  /\ vad.calibrated /\ vad.noiseFloor > 0
  /\ res.rms = 0

\* C9: a process call that begins while Speaking leaves the noise floor
\* unchanged, whatever the RMS of the frame.
C9_NoiseFloorFrozen ==
  [][(op' = "process" /\ vad.isSpeaking) =>
       vad'.noiseFloor = vad.noiseFloor]_vars

C9_Witness ==
  /\ op = "process" /\ vad.isSpeaking /\ ~res.speechStarted
  /\ res.rms # vad.noiseFloor
  /\ vad.speechFrames > speechOnsetFrames + 1

\* C10: the noise floor is never negative, every classified frame is compared
\* against a threshold of at least minThreshold, and a frame of RMS 0 never
\* carries speechStarted.
C10_ThresholdFloor ==
  /\ vad.noiseFloor >= 0
  /\ (op = "process" /\ obs.frames > calibrationTarget) =>
       res.threshold >= minThreshold * 100
  /\ (op = "process" /\ res.rms = 0) => ~res.speechStarted

C10_Witness ==
  /\ op = "process" /\ obs.frames > calibrationTarget
  /\ vad.noiseFloor = 0 /\ res.rms = 0
  /\ res.threshold = minThreshold * 100

\* C15: a detector that has been reset has the fields of a newly constructed
\* one with the same configuration, so that it returns what a new one
\* returns for every frame fed from there on; and reset changes nothing in a
\* detector that was just reset.
C15_ResetIsFresh ==
  [][op' = "reset" =>
       /\ \E s \in Sensitivities, t \in SilenceTimeouts, d \in FrameDurations :
            /\ vad' = NewVad(s, t, d)
            /\ vad'.sensitivityMultiplier = vad.sensitivityMultiplier
            /\ vad'.silenceOnsetFrames = vad.silenceOnsetFrames
       /\ VadReset(vad') = vad'
       /\ \A rms \in RmsLevels : Process(vad', rms).r = Calibrate(vad', rms).r]_vars

\* a detector was reset while Speaking, with an adapted noise floor
C15_Witness ==
  /\ op = "reset"
  /\ obs.reset = "speaking"
  /\ ~vad.calibrated
  /\ vad.noiseFloor = 0

\* C27: a frame processed after calibration while not Speaking first moves
\* the noise floor to 0.95 * noiseFloor + 0.05 * rms, and the threshold of
\* its result, the one the frame is classified by, is
\* max(noiseFloor * multiplier, minThreshold) of the moved noise floor: a
\* frame louder than the noise floor is compared to a threshold no lower than
\* the one before it, also while an onset is being debounced.
C27_FloorMovesFirst ==
  [][(op' = "process" /\ vad.calibrated /\ ~vad.isSpeaking) =>
       /\ vad'.noiseFloor = (vad.noiseFloor * 95 + res'.rms * 5) \div 100
       /\ res'.threshold =
            Max(vad'.noiseFloor * vad.sensitivityMultiplier, minThreshold * 100)
       /\ (res'.rms * 100 > res'.threshold) <=>
            (vad'.speechFrames = vad.speechFrames + 1)
       /\ (res'.rms * 100 <= res'.threshold) <=>
            (vad'.silenceFrames = vad.silenceFrames + 1)
       /\ res'.rms >= vad.noiseFloor =>
            res'.threshold >= Threshold(vad.noiseFloor, vad.sensitivityMultiplier)]_vars

\* the second frame of an onset was above a threshold its own RMS had raised
C27_Witness ==
  /\ op = "process"
  /\ ~vad.isSpeaking
  /\ vad.speechFrames = speechOnsetFrames - 1
  /\ res.rms * 100 > res.threshold
  /\ res.threshold = vad.noiseFloor * vad.sensitivityMultiplier
  /\ res.threshold > minThreshold * 100
  /\ vad.noiseFloor * 100 > res.rms * 5

\* C28: a detector is in Silence when constructed and when reset; no result
\* carries both speechStarted and speechEnded; a result carries speechStarted
\* exactly when its frame took the detector from Silence to Speaking and
\* speechEnded exactly when it took it from Speaking to Silence, so that
\* between two resets the two events alternate, speechStarted first.
C28_EventsAlternate ==
  [][/\ op = "new" => ~vad.isSpeaking
     /\ op' = "reset" => ~vad'.isSpeaking
     /\ op' = "process" =>
          /\ ~(res'.speechStarted /\ res'.speechEnded)
          /\ res'.speechStarted <=> (~vad.isSpeaking /\ vad'.isSpeaking)
          /\ res'.speechEnded <=> (vad.isSpeaking /\ ~vad'.isSpeaking)]_vars

\* a speechEnded, which follows a speechStarted, after a silence of several
\* frames
C28_Witness ==
  /\ op = "process"
  /\ res.speechEnded
  /\ ~res.speechStarted
  /\ ~vad.isSpeaking
  /\ vad.silenceFrames > 1

\* C29: a detector that is Speaking is calibrated; up to the frame that ends
\* the calibration the detector is not Speaking and no result carries
\* speechStarted; and a result that carries speechStarted is that of the
\* 33rd frame since construction or reset, or of a later one.
C29_NoSpeechBeforeCalibrated ==
  /\ vad.isSpeaking => vad.calibrated
  /\ ~vad.calibrated => vad.calibrationFrames < calibrationTarget
  /\ obs.frames <= calibrationTarget =>
       ~vad.isSpeaking /\ ~res.speechStarted /\ ~res.isSpeech
  /\ res.speechStarted => obs.frames >= calibrationTarget + speechOnsetFrames

\* the 33rd frame since construction or reset carried speechStarted
C29_Witness ==
  /\ op = "process"
  /\ res.speechStarted
  /\ vad.isSpeaking
  /\ obs.frames = calibrationTarget + speechOnsetFrames
  /\ obs.quiet = speechOnsetFrames

\* the threshold a detector constructed with sensitivity s compares a frame
\* to at the noise floor of the detector of the state
ThresholdAt(s) ==
  Threshold(vad.noiseFloor,
            NewVad(s, eng.silenceTimeout, DefaultFrameDurationMs).sensitivityMultiplier)

C22_LowerSettingMoreSensitive ==
  \A s1, s2 \in Sensitivities :
    s1 < s2 => ThresholdAt(s1) <= ThresholdAt(s2)

-----------------------------------------------------------------------------
(* Properties of the detector fed buffers of samples, checked under        *)
(* PcmSpec.                                                                *)

\* C23: process of a buffer of length 0 returns the RMS 0, not the NaN of a
\* division of 0 by 0, and leaves the detector and the result as a frame of
\* RMS 0 does: while calibrating the frame is counted and adds nothing to
\* the sum, after calibration it is not above the threshold and carries no
\* speechStarted.
C23_EmptyFrameIsSilence ==
  [][(op' = "pcm" /\ hist'.chunk = 0) =>
       /\ res'.rms = 0
       /\ vad' = Process(vad, 0).v
       /\ res' = Process(vad, 0).r
       /\ ~vad.calibrated =>
            /\ vad'.calibrationFrames = vad.calibrationFrames + 1
            /\ vad'.rmsSum = vad.rmsSum
            /\ res' = NoResult
       /\ vad.calibrated =>
            /\ res'.threshold >= minThreshold * 100
            /\ ~res'.speechStarted
            /\ vad'.silenceFrames = vad.silenceFrames + 1]_vars

\* a buffer of length 0 was processed while Speaking, after one had been
\* counted in the calibration
C23_Witness ==
  /\ op = "pcm"
  /\ hist.chunk = 0
  /\ vad.calibrated
  /\ vad.silenceFrames >= 1
  /\ res.isSpeech
  /\ obs.sum = 500000

====
